---- MODULE Spec2Model ----
(***************************************************************************)
(* A model of opus_converter/server.py: the length-prefixed frame scan of  *)
(* OpusToWavConverter.convert_to_wav, the wave writer it drives, the       *)
(* processing queue, the background worker and the receive_audio handler.  *)
(*                                                                         *)
(* Python indexes from 0 and TLA+ sequences from 1: data[i] of the source  *)
(* is data[i + 1] here, and offsets keep the source's 0-based values.      *)
(***************************************************************************)
EXTENDS Integers, Sequences, FiniteSets

\* ------------------------------------------------------------------ bounds

\* Longest input handed to a stand-alone conversion (SpecConv).
MaxLen == 6

\* Requests the server model handles in one run (Spec, FairSpec).
MaxRequests == 2

\* Seconds the clock may advance in one run (SpecFiles).
MaxClock == 2

\* ----------------------------------------------------------- input alphabets

\* Byte values of conversion inputs: enough for lengths 0, 1, 2 in the low
\* byte of a header and a non-zero high byte (0, 1 reads as 256).
ByteVals == {0, 1, 2}

\* 16-bit sample values the decoder may emit: a negative one and one
\* whose two bytes differ.
PcmVals == {-2, 258}

\* Request bodies the server model receives: empty, one byte, one empty
\* frame, one frame with a payload, a truncated frame.
Submissions == {<<>>, <<1>>, <<0, 0>>, <<1, 0, 2>>, <<2, 0, 1>>}

ContentTypes == {"audio/opus", "audio/ogg"}

\* Values of the X-Audio-Type header, as sequences of characters; <<>> is the
\* default of request.headers.get('X-Audio-Type', '').
AudioTypes == {<<>>, <<"U", "s", "e", "r">>}

\* ------------------------------------------------------------------ helpers

Min(a, b) == IF a < b THEN a ELSE b

RECURSIVE Concat(_)
\* b''.join(blocks)
Concat(blocks) ==
  IF blocks = <<>> THEN <<>> ELSE Head(blocks) \o Concat(Tail(blocks))

\* Python's data[lo:hi] for 0 <= lo: the slice is clamped to the data.
Slice(data, lo, hi) == SubSeq(data, lo + 1, Min(hi, Len(data)))

RECURSIVE BitOr(_, _)
\* a | b on non-negative integers
BitOr(a, b) ==
  IF a = 0 THEN b
  ELSE IF b = 0 THEN a
  ELSE (IF a % 2 = 1 \/ b % 2 = 1 THEN 1 ELSE 0) + 2 * BitOr(a \div 2, b \div 2)

\* a << 8
ShiftLeft8(a) == a * 256

\* ------------------------------------------------- OpusToWavConverter

\* A second worker thread started on the same queue and converter
WorkerThreads_two == {"worker_thread", "worker_thread_2"}

\* Worker threads started at import: Thread(target=background_worker).start()
WorkerThreads == {"worker_thread"}

\* OpusToWavConverter.__init__ defaults, used by converter = OpusToWavConverter()
sample_rate_default == 16000
channels_default == 1

\* A frame_size of 10 ms at 16 kHz
FrameSize_10ms == (16000 * 10) \div 1000

\* The frame_size argument of self.decoder.decode(bytes(frame), 320)
FrameSize == 320

\* setsampwidth(2)
SampWidth == 2

\* _read_frame_length with the byte order swapped
ReadFrameLength_bigendian(data, offset) ==
  BitOr(ShiftLeft8(data[offset + 1]), data[offset + 2])

\* _read_frame_length: data[offset] | (data[offset + 1] << 8)
ReadFrameLength(data, offset) ==
  BitOr(data[offset + 1], ShiftLeft8(data[offset + 2]))

\* Whether data[i] raises IndexError
IndexError(data, i) == i >= Len(data)

\* The header check that lets a single trailing byte through
HeaderTruncated_offbyone(data, offset) == offset + 1 > Len(data)

\* if offset + 2 > len(opus_data): break
HeaderTruncated(data, offset) == offset + 2 > Len(data)

\* The payload check left out
PayloadTruncated_never(data, offset, frame_length) == FALSE

\* if offset + frame_length > len(opus_data): break
PayloadTruncated(data, offset, frame_length) == offset + frame_length > Len(data)

\* One pass of the scan from the loop head to the frame it cuts out: what the
\* pass ends with, and the cursor it leaves.
Demux(data, offset) ==
  IF ~(offset < Len(data)) THEN [kind |-> "exit", offset |-> offset]
  ELSE IF HeaderTruncated(data, offset) THEN [kind |-> "break", offset |-> offset]
  ELSE IF IndexError(data, offset) \/ IndexError(data, offset + 1)
       THEN [kind |-> "raise", offset |-> offset]
  ELSE LET frame_length == ReadFrameLength(data, offset)
           off2 == offset + 2
       IN IF PayloadTruncated(data, off2, frame_length)
          THEN [kind |-> "break", offset |-> off2]
          ELSE [kind |-> "frame", offset |-> off2 + frame_length,
                frame |-> Slice(data, off2, off2 + frame_length)]

\* ------------------------------------------------------------ the decoder

\* The two little-endian bytes of a signed 16-bit sample
SampleBytes(s) ==
  LET u == IF s < 0 THEN s + 65536 ELSE s IN <<u % 256, u \div 256>>

\* The PCM bytes of n samples of value s
PcmBlock(s, n) ==
  [i \in 1..(2 * n) |-> SampleBytes(s)[IF i % 2 = 1 THEN 1 ELSE 2]]

\* Decoder(sample_rate, channels): no frame decoded yet
NoFrame == [used |-> FALSE, frame |-> <<>>]

\* self.decoder.decode(bytes(frame), frame_size): the call either raises or
\* returns frame_size samples per channel as 16-bit little-endian bytes (the
\* frames are taken to hold the 20 ms the source's comment names; opuslib
\* returns as many samples as the packet holds, at most frame_size). Which of
\* the two happens, and the samples, are the decoder's choice. A successful
\* call leaves the frame in the decoder's state.
DecoderDecode(frame, frame_size, channels) ==
  {[ok |-> FALSE, sample |-> 0, pcm |-> <<>>]}
    \cup {[ok |-> TRUE, sample |-> s, pcm |-> PcmBlock(s, frame_size * channels)] :
            s \in PcmVals}

\* struct.unpack('<%dh' % (len(pcm) // 2), pcm): the signed 16-bit values, or
\* struct.error when the length is not 2 * (len(pcm) // 2)
StructUnpack(pcm) ==
  IF Len(pcm) # 2 * (Len(pcm) \div 2) THEN [ok |-> FALSE, values |-> <<>>]
  ELSE [ok |-> TRUE,
        values |-> [i \in 1..(Len(pcm) \div 2) |->
                      LET u == pcm[2 * i - 1] + 256 * pcm[2 * i]
                      IN IF u >= 32768 THEN u - 65536 ELSE u]]

\* struct.pack with '>' in place of '<': the two bytes of each value swapped
StructPack_bigendian(values) ==
  [i \in 1..(2 * Len(values)) |-> SampleBytes(values[(i + 1) \div 2])[IF i % 2 = 1 THEN 2 ELSE 1]]

\* struct.pack('<%dh' % n, *values)
StructPack(values) ==
  [i \in 1..(2 * Len(values)) |-> SampleBytes(values[(i + 1) \div 2])[IF i % 2 = 1 THEN 1 ELSE 2]]

\* ---------------------------------------------------------- the wave writer

NoHeader == [written |-> FALSE]

\* wave.open(wav_buffer, 'wb') followed by setnchannels, setsampwidth(2) and
\* setframerate: a writer with nothing written to its buffer yet.
WaveOpen(channels, sample_rate) ==
  [nchannels |-> channels, sampwidth |-> SampWidth, framerate |-> sample_rate,
   datalength |-> 0, datawritten |-> 0, header |-> NoHeader, data |-> <<>>,
   closed |-> FALSE]

\* Wave_write._write_header and _patchheader: the RIFF/fmt/data header fields
\* that stand in the buffer for a data length of n bytes.
WaveHeader(w, n) ==
  [written |-> TRUE, riff_size |-> 36 + n, format |-> 1,
   nchannels |-> w.nchannels, framerate |-> w.framerate,
   byterate |-> w.nchannels * w.framerate * w.sampwidth,
   blockalign |-> w.nchannels * w.sampwidth,
   bits |-> w.sampwidth * 8, data_size |-> n]

\* Wave_write._ensure_header_written(datasize)
WaveEnsureHeader(w, datasize) ==
  IF w.header.written THEN w
  ELSE LET n == (datasize \div (w.nchannels * w.sampwidth)) * w.nchannels * w.sampwidth
       IN [w EXCEPT !.header = WaveHeader(w, n), !.datalength = n]

\* A header left as first written
WavePatchHeader_skip(w) == w

\* Wave_write._patchheader
WavePatchHeader(w) ==
  IF w.datawritten = w.datalength THEN w
  ELSE [w EXCEPT !.header = WaveHeader(w, w.datawritten),
                 !.datalength = w.datawritten]

\* wav_file.writeframes(wav_data)
WaveWriteFrames(w, wav_data) ==
  LET h == WaveEnsureHeader(w, Len(wav_data))
  IN WavePatchHeader([h EXCEPT !.data = h.data \o wav_data,
                               !.datawritten = h.datawritten + Len(wav_data)])

\* Leaving the block without closing the writer
WaveClose_noheader(w) == [w EXCEPT !.closed = TRUE]

\* Wave_write.close(), run when the with block is left
WaveClose(w) ==
  [WavePatchHeader(WaveEnsureHeader(w, 0)) EXCEPT !.closed = TRUE]

\* wav_buffer.getvalue(): the header, if one was written, and the data
GetValue(w) == [header |-> w.header, data |-> w.data]

\* The except branch ending the scan
FrameErrorNext_break == "close"

\* except Exception as e: ... continue
FrameErrorNext == "loop"


\* ------------------------------------------------------------ the queue

\* A put on a queue of one slot that drops the item when the slot is taken
QueuePut_dropfull(q, item) == IF Len(q) >= 1 THEN q ELSE Append(q, item)

\* Queue.put(item): the item joins the right end of the deque
QueuePut(q, item) == Append(q, item)

\* A queue of one slot, Queue(maxsize=1): put waits while the slot is taken
PutBlocks_oneslot(q) == Len(q) >= 1

\* processing_queue = Queue(): maxsize 0, put never waits for a free slot
PutBlocks(q) == FALSE

\* A get that takes the newest item
QueueGetIndex_lifo(q) == Len(q)

\* Queue.get(): deque.popleft(), the position of the item it returns
QueueGetIndex(q) == 1

\* The queue without the item at position i
QueueWithout(q, i) == SubSeq(q, 1, i - 1) \o SubSeq(q, i + 1, Len(q))

\* ------------------------------------------------------- receive_audio

\* str.lower() on one character
LowerChar(c) ==
  CASE c = "U" -> "u" [] c = "S" -> "s" [] c = "E" -> "e" [] c = "R" -> "r"
    [] c = "A" -> "a" [] c = "I" -> "i" [] OTHER -> c

\* str.lower()
Lower(s) == [i \in 1..Len(s) |-> LowerChar(s[i])]

\* needle in s
Contains(needle, s) ==
  \E i \in 0..(Len(s) - Len(needle)) : SubSeq(s, i + 1, i + Len(needle)) = needle

\* 'user' in request.headers.get('X-Audio-Type', '').lower()
IsUser(audio_type) == Contains(<<"u", "s", "e", "r">>, Lower(audio_type))

\* The length check left out
BodyTooShort_never(body) == FALSE

\* if len(opus_data) < 2
BodyTooShort(body) == Len(body) < 2

\* ------------------------------------------------------------------ state

VARIABLES
  processing_queue,  \* the module's Queue: items <<opus_data, is_user>>, with the arrival number
  converter,         \* the module's OpusToWavConverter: sample_rate, channels
  decoder,           \* converter.decoder's state: the last frame it decoded
  last_decode,       \* arrival number of the submission of the last decode call
  pc,                \* per thread: where the worker is
  task,              \* per thread: the item taken from the queue
  offset,            \* per thread: convert_to_wav's cursor
  frame_count,       \* per thread: convert_to_wav's counter
  wav_file,          \* per thread: the wave writer and its buffer
  wav_data,          \* per thread: what convert_to_wav returned
  handed,            \* per thread: the frames passed to decoder.decode, in order
  emitted,           \* per thread: what each of those calls did
  nreq,              \* requests handled so far
  accepted,          \* submissions enqueued so far
  response,          \* the last request handled and its status
  done,              \* the worker's finished submissions, in order, with the outcome logged
  sink_faulty,       \* whether a write to the in-memory buffer can fail (memory exhausted)
  now,               \* datetime.now(), in whole seconds
  timestamp,         \* per thread: process_audio_data's timestamp
  recordings         \* the recordings directory: each file's name and the submission it holds

vars == <<processing_queue, converter, decoder, last_decode, pc, task, offset,
          frame_count, wav_file, wav_data, handed, emitted, nreq, accepted,
          response, done, sink_faulty, now, timestamp, recordings>>

conv_vars == <<offset, frame_count, wav_file, wav_data, handed, emitted>>
intake_vars == <<nreq, accepted, response>>
file_vars == <<now, timestamp, recordings>>

\* The outcomes of wav_file.writeframes(frames): on a sound buffer the frames
\* are written; a buffer that can fail (BytesIO.write raising MemoryError) may
\* also raise, before or after the header went in.
SinkWrite(faulty, w, frames) ==
  {[ok |-> TRUE, file |-> WaveWriteFrames(w, frames)]}
    \cup (IF faulty
          THEN {[ok |-> FALSE, file |-> w],
                [ok |-> FALSE, file |-> WaveEnsureHeader(w, Len(frames))]}
          ELSE {})

\* prefix = 'user' if is_user else 'ai'
Prefix(is_user) == IF is_user THEN "user" ELSE "ai"

\* f'{prefix}_{timestamp}.wav', the timestamp formatted '%Y%m%d_%H%M%S': one
\* name per prefix and second
Filename(prefix, ts) == <<prefix, ts>>

\* open(os.path.join('recordings', filename), 'wb') and f.write(wav_data): the
\* file of that name now holds this submission, whatever it held before
WriteFile(files, name, id) ==
  {f \in files : f.name # name} \cup {[name |-> name, id |-> id]}

NoTask == [id |-> 0, opus_data |-> <<>>, is_user |-> FALSE]
NoWave == [WaveOpen(0, 0) EXCEPT !.closed = TRUE]
NoData == [header |-> NoHeader, data |-> <<>>]
NoResponse == [content_type |-> "", body |-> <<>>, status |-> 0]

\* converter = OpusToWavConverter()
NewConverter == [sample_rate |-> sample_rate_default, channels |-> channels_default]

\* ----------------------------------------------------- convert_to_wav

\* The head of convert_to_wav: a fresh buffer and writer, offset = 0,
\* frame_count = 0.
ConvStart(t) ==
  /\ offset' = [offset EXCEPT ![t] = 0]
  /\ frame_count' = [frame_count EXCEPT ![t] = 0]
  /\ wav_file' = [wav_file EXCEPT ![t] = WaveOpen(converter.channels, converter.sample_rate)]
  /\ wav_data' = [wav_data EXCEPT ![t] = NoData]
  /\ handed' = [handed EXCEPT ![t] = <<>>]
  /\ emitted' = [emitted EXCEPT ![t] = <<>>]

\* One iteration of while offset < len(opus_data), the decode and the write
\* of its frame included.
LoopIter(t) ==
  /\ pc[t] = "loop"
  /\ LET d == Demux(task[t].opus_data, offset[t]) IN
     /\ offset' = [offset EXCEPT ![t] = d.offset]
     /\ IF d.kind = "frame"
        THEN \E r \in DecoderDecode(d.frame, FrameSize, converter.channels) :
               LET u == StructUnpack(r.pcm) IN
               \E wr \in (IF r.ok /\ u.ok
                          THEN SinkWrite(sink_faulty, wav_file[t], StructPack(u.values))
                          ELSE {[ok |-> FALSE, file |-> wav_file[t]]}) :
                 LET written == r.ok /\ u.ok /\ wr.ok IN
                 /\ handed' = [handed EXCEPT ![t] = Append(@, d.frame)]
                 /\ emitted' = [emitted EXCEPT ![t] =
                                  Append(@, [ok |-> r.ok, sample |-> r.sample,
                                             frame_size |-> FrameSize,
                                             written |-> written,
                                             logged |-> IF written THEN frame_count[t] + 1
                                                        ELSE frame_count[t]])]
                 /\ decoder' = IF r.ok THEN [used |-> TRUE, frame |-> d.frame] ELSE decoder
                 /\ last_decode' = task[t].id
                 /\ wav_file' = [wav_file EXCEPT ![t] = wr.file]
                 /\ frame_count' = IF written THEN [frame_count EXCEPT ![t] = @ + 1]
                                   ELSE frame_count
                 /\ pc' = [pc EXCEPT ![t] = IF written THEN "loop" ELSE FrameErrorNext]
        ELSE /\ pc' = [pc EXCEPT ![t] = IF d.kind = "raise" THEN "raised" ELSE "close"]
             /\ UNCHANGED <<handed, emitted, decoder, last_decode, wav_file, frame_count>>
  /\ UNCHANGED <<processing_queue, converter, task, wav_data, intake_vars, done,
                 sink_faulty, file_vars>>

\* Leaving the with block closes the writer; return wav_buffer.getvalue().
ConvClose(t) ==
  /\ pc[t] = "close"
  /\ wav_file' = [wav_file EXCEPT ![t] = WaveClose(@)]
  /\ wav_data' = [wav_data EXCEPT ![t] = GetValue(WaveClose(wav_file[t]))]
  /\ pc' = [pc EXCEPT ![t] = "returned"]
  /\ UNCHANGED <<processing_queue, converter, decoder, last_decode, task, offset,
                 frame_count, handed, emitted, intake_vars, done, sink_faulty, file_vars>>

\* ------------------------------------------------------ background_worker

\* opus_data, is_user = processing_queue.get(), then process_audio_data up to
\* the head of convert_to_wav: timestamp = datetime.now().strftime(...) is
\* taken before the conversion. get() blocks while the queue is empty.
WorkerGet(t) ==
  /\ pc[t] = "get"
  /\ processing_queue # <<>>
  /\ LET i == QueueGetIndex(processing_queue) IN
     /\ task' = [task EXCEPT ![t] = processing_queue[i]]
     /\ processing_queue' = QueueWithout(processing_queue, i)
  /\ timestamp' = [timestamp EXCEPT ![t] = now]
  /\ ConvStart(t)
  /\ pc' = [pc EXCEPT ![t] = "loop"]
  /\ UNCHANGED <<converter, decoder, last_decode, intake_vars, done, sink_faulty,
                 now, recordings>>

\* The locals of a finished call
ConvReset(t) ==
  /\ offset' = [offset EXCEPT ![t] = 0]
  /\ frame_count' = [frame_count EXCEPT ![t] = 0]
  /\ wav_file' = [wav_file EXCEPT ![t] = NoWave]
  /\ wav_data' = [wav_data EXCEPT ![t] = NoData]
  /\ handed' = [handed EXCEPT ![t] = <<>>]
  /\ emitted' = [emitted EXCEPT ![t] = <<>>]

\* An error of process_audio_data that ends the worker's loop
ProcessFinish_crash(t) ==
  /\ pc[t] \in {"returned", "raised"}
  /\ \E io_ok \in BOOLEAN :
       LET saved == pc[t] = "returned" /\ io_ok
       IN /\ done' = IF saved THEN Append(done, [id |-> task[t].id, outcome |-> "saved"])
                      ELSE done
          /\ pc' = [pc EXCEPT ![t] = IF saved THEN "get" ELSE "dead"]
          /\ recordings' =
               IF saved
               THEN WriteFile(recordings, Filename(Prefix(task[t].is_user), timestamp[t]),
                              task[t].id)
               ELSE recordings
  /\ task' = [task EXCEPT ![t] = NoTask]
  /\ timestamp' = [timestamp EXCEPT ![t] = 0]
  /\ ConvReset(t)
  /\ UNCHANGED <<processing_queue, converter, decoder, last_decode, intake_vars,
                 sink_faulty, now>>

\* The rest of process_audio_data and of the worker's iteration: os.makedirs,
\* open and f.write either succeed (logger.info) or raise, and an exception of
\* the conversion or of the save is caught by except Exception and logged
\* (logger.error); then processing_queue.task_done() and the next get().
ProcessFinish(t) ==
  /\ pc[t] \in {"returned", "raised"}
  /\ \E io_ok \in BOOLEAN :
       LET saved == pc[t] = "returned" /\ io_ok
       IN /\ done' = Append(done, [id |-> task[t].id,
                                   outcome |-> IF saved THEN "saved" ELSE "error"])
          /\ recordings' =
               IF saved
               THEN WriteFile(recordings, Filename(Prefix(task[t].is_user), timestamp[t]),
                              task[t].id)
               ELSE recordings
  /\ pc' = [pc EXCEPT ![t] = "get"]
  /\ task' = [task EXCEPT ![t] = NoTask]
  /\ timestamp' = [timestamp EXCEPT ![t] = 0]
  /\ ConvReset(t)
  /\ UNCHANGED <<processing_queue, converter, decoder, last_decode, intake_vars,
                 sink_faulty, now>>

\* ---------------------------------------------------------- receive_audio

\* The whole handler for one request: the content type check, get_data, the
\* two body checks, the role tag, the put and the response. The put is where
\* the handler would wait if the queue could be full.
ReceiveAudioReq(content_type, body, audio_type) ==
  /\ nreq < MaxRequests
  /\ LET status == IF content_type # "audio/opus" THEN 415
                   ELSE IF body = <<>> THEN 400
                   ELSE IF BodyTooShort(body) THEN 400
                   ELSE 202
     IN /\ response' = [content_type |-> content_type, body |-> body, status |-> status]
        /\ IF status = 202
           THEN /\ ~PutBlocks(processing_queue)
                /\ processing_queue' =
                     QueuePut(processing_queue,
                              [id |-> accepted + 1, opus_data |-> body,
                               is_user |-> IsUser(audio_type)])
                /\ accepted' = accepted + 1
           ELSE UNCHANGED <<processing_queue, accepted>>
  /\ nreq' = nreq + 1
  /\ UNCHANGED <<converter, decoder, last_decode, pc, task, conv_vars, done,
                 sink_faulty, file_vars>>

\* A request arrives: any content type, body and X-Audio-Type header
ReceiveAudio ==
  \E content_type \in ContentTypes, body \in Submissions, audio_type \in AudioTypes :
    ReceiveAudioReq(content_type, body, audio_type)

\* --------------------------------------------------------- specifications

\* The module as imported: an empty queue, a new converter, the worker
\* thread started and blocked in get().
Init ==
  /\ processing_queue = <<>>
  /\ converter = NewConverter
  /\ decoder = NoFrame
  /\ last_decode = 0
  /\ pc = [t \in WorkerThreads |-> "get"]
  /\ task = [t \in WorkerThreads |-> NoTask]
  /\ offset = [t \in WorkerThreads |-> 0]
  /\ frame_count = [t \in WorkerThreads |-> 0]
  /\ wav_file = [t \in WorkerThreads |-> NoWave]
  /\ wav_data = [t \in WorkerThreads |-> NoData]
  /\ handed = [t \in WorkerThreads |-> <<>>]
  /\ emitted = [t \in WorkerThreads |-> <<>>]
  /\ nreq = 0
  /\ accepted = 0
  /\ response = NoResponse
  /\ done = <<>>
  /\ sink_faulty = FALSE
  /\ now = 0
  /\ timestamp = [t \in WorkerThreads |-> 0]
  /\ recordings = {}

Worker == \E t \in WorkerThreads : WorkerGet(t) \/ LoopIter(t) \/ ConvClose(t) \/ ProcessFinish(t)

Next == ReceiveAudio \/ Worker

Spec == Init /\ [][Next]_vars

\* The clock moves on by a second
Tick ==
  /\ now < MaxClock
  /\ now' = now + 1
  /\ UNCHANGED <<processing_queue, converter, decoder, last_decode, pc, task,
                 conv_vars, intake_vars, done, sink_faulty, timestamp,
                 recordings>>

NextFiles == Next \/ Tick

\* The server with time passing between its steps
SpecFiles == Init /\ [][NextFiles]_vars

\* The worker is a thread of its own: it is scheduled whenever it can run.
FairSpec == Spec /\ WF_vars(Worker)

RECURSIVE SeqsOfLen(_, _)
\* The sequences of length n over S
SeqsOfLen(S, n) ==
  IF n = 0 THEN {<<>>}
  ELSE {<<x>> \o s : x \in S, s \in SeqsOfLen(S, n - 1)}

\* The inputs of a stand-alone conversion: every byte string up to MaxLen
Inputs == UNION {SeqsOfLen(ByteVals, n) : n \in 0..MaxLen}

\* The sample rates opuslib.Decoder accepts that the model constructs
SampleRates == {8000, 16000, 48000}

\* c.convert_to_wav(opus_data) called on any input, at the head of its loop,
\* for a converter c and a buffer that can fail or not.
ConvCall(c, faulty) ==
  /\ processing_queue = <<>>
  /\ converter = c
  /\ decoder = NoFrame
  /\ last_decode = 0
  /\ pc = [t \in WorkerThreads |-> "loop"]
  /\ task \in [WorkerThreads -> {[id |-> 0, opus_data |-> d, is_user |-> FALSE] : d \in Inputs}]
  /\ offset = [t \in WorkerThreads |-> 0]
  /\ frame_count = [t \in WorkerThreads |-> 0]
  /\ wav_file = [t \in WorkerThreads |-> WaveOpen(converter.channels, converter.sample_rate)]
  /\ wav_data = [t \in WorkerThreads |-> NoData]
  /\ handed = [t \in WorkerThreads |-> <<>>]
  /\ emitted = [t \in WorkerThreads |-> <<>>]
  /\ nreq = 0
  /\ accepted = 0
  /\ response = NoResponse
  /\ done = <<>>
  /\ sink_faulty = faulty
  /\ now = 0
  /\ timestamp = [t \in WorkerThreads |-> 0]
  /\ recordings = {}

\* The module's converter, OpusToWavConverter(), writing to a sound buffer
InitConv == ConvCall(NewConverter, FALSE)

\* The same converter writing to a buffer that can fail
InitSink == ConvCall(NewConverter, TRUE)

\* OpusToWavConverter(sample_rate=rate) for each rate
InitRates ==
  \E rate \in SampleRates :
    ConvCall([sample_rate |-> rate, channels |-> channels_default], FALSE)

NextConv == \E t \in WorkerThreads : LoopIter(t) \/ ConvClose(t)

SpecConv == InitConv /\ [][NextConv]_vars

\* convert_to_wav runs to its return once called
FairSpecConv == SpecConv /\ WF_vars(NextConv)

SpecSink == InitSink /\ [][NextConv]_vars

SpecRates == InitRates /\ [][NextConv]_vars


\* ------------------------------------------------- the binary frame format

\* One record of the format: the 2-byte little-endian length, then the payload
Record(f) == <<Len(f) % 256, Len(f) \div 256>> \o f

RECURSIVE Encode(_)
\* The stream that holds the frames fs, in order
Encode(fs) == IF fs = <<>> THEN <<>> ELSE Record(Head(fs)) \o Encode(Tail(fs))

RECURSIVE StreamsOfLen(_)
\* The frame lists whose stream is n bytes long, all of them in ByteVals
StreamsOfLen(n) ==
  IF n = 0 THEN {<<>>}
  ELSE UNION {{<<f>> \o rest : f \in SeqsOfLen(ByteVals, l), rest \in StreamsOfLen(n - 2 - l)} :
                l \in {k \in 0..(n - 2) : k % 256 \in ByteVals /\ k \div 256 \in ByteVals}}

\* The truncated tails of m bytes: one byte where a header is expected, or a
\* header that declares more bytes than follow it
TruncatedTails(m) ==
  {s \in SeqsOfLen(ByteVals, m) : m = 1 \/ (m >= 2 /\ s[1] + 256 * s[2] > m - 2)}

\* The well-formed streams up to MaxLen, each with its frames
WellFormedStreams ==
  UNION {{[data |-> Encode(fs), frames |-> fs] : fs \in StreamsOfLen(n)} : n \in 0..MaxLen}

\* The streams up to MaxLen that end in a truncation, each with the complete
\* frames before it
TruncatedStreams ==
  UNION {UNION {{[data |-> Encode(fs) \o tl, frames |-> fs] :
                   fs \in StreamsOfLen(n), tl \in TruncatedTails(m)} :
                 m \in 1..(MaxLen - n)} : n \in 0..MaxLen}

WellFormedData == {x.data : x \in WellFormedStreams}
TruncatedData == {x.data : x \in TruncatedStreams}

\* The complete frames of each stream up to MaxLen, by the format
FramesOfStream ==
  [d \in WellFormedData \cup TruncatedData |->
     (CHOOSE x \in WellFormedStreams \cup TruncatedStreams : x.data = d).frames]

IsPrefix(s, r) == Len(s) <= Len(r) /\ SubSeq(r, 1, Len(s)) = s

\* The calls of a conversion that failed
Failed(t) == {i \in 1..Len(emitted[t]) : ~emitted[t][i].ok}

RECURSIVE EmittedBlocks(_, _)
\* The PCM blocks the decoder returned in the calls es, in call order
EmittedBlocks(es, n) ==
  IF es = <<>> THEN <<>>
  ELSE (IF Head(es).ok THEN <<PcmBlock(Head(es).sample, n)>> ELSE <<>>)
         \o EmittedBlocks(Tail(es), n)

\* 20 ms of audio at the converter's sample rate, in samples
NominalSamples == (converter.sample_rate * 20) \div 1000

\* ------------------------------------------------------------------ claims

\* C1: on a stream that is a concatenation of well-formed records the scan
\* hands the decoder the records' payloads, byte for byte and in stream
\* order: a prefix of them while it runs, all of them once the loop is left,
\* and it raises nothing.
C1_WellFormedFramesExact ==
  \A t \in WorkerThreads :
    (pc[t] \in {"loop", "close", "returned", "raised"}
       /\ task[t].opus_data \in WellFormedData)
      => LET frames == FramesOfStream[task[t].opus_data]
         IN /\ pc[t] # "raised"
            /\ IsPrefix(handed[t], frames)
            /\ pc[t] \in {"close", "returned"} => handed[t] = frames

C1_Witness ==
  \E t \in WorkerThreads :
    /\ pc[t] = "returned"
    /\ task[t].opus_data = <<1, 0, 2, 0, 0>>
    /\ handed[t] = << <<2>>, <<>> >>

\* C2: on a stream of k complete frames followed by a truncation (one byte
\* where a header is expected, or a header declaring more than remains) the
\* conversion hands the decoder the k frames and no other, raises nothing
\* and returns a finalized container.
C2_TruncationStopsQuietly ==
  \A t \in WorkerThreads :
    (pc[t] \in {"loop", "close", "returned", "raised"}
       /\ task[t].opus_data \in TruncatedData)
      => LET frames == FramesOfStream[task[t].opus_data]
         IN /\ pc[t] # "raised"
            /\ IsPrefix(handed[t], frames)
            /\ pc[t] \in {"close", "returned"} => handed[t] = frames
            /\ pc[t] = "returned" =>
                 /\ wav_file[t].closed
                 /\ wav_data[t].header.written
                 /\ wav_data[t].header.data_size = Len(wav_data[t].data)

C2_Witness ==
  \E t \in WorkerThreads :
    /\ pc[t] = "returned"
    /\ task[t].opus_data = <<1, 0, 2, 0, 0, 1>>
    /\ handed[t] = << <<2>>, <<>> >>

\* C3: with any set F of the N complete frames failing to decode, every one
\* of the N frames is still handed to the decoder and the returned container
\* holds exactly N - |F| blocks, the blocks of the other frames.
C3_FailedFramesSkipped ==
  \A t \in WorkerThreads :
    (pc[t] = "returned" /\ task[t].opus_data \in DOMAIN FramesOfStream)
      => LET n == Len(FramesOfStream[task[t].opus_data])
             block == FrameSize * 2 * converter.channels
         IN /\ Len(emitted[t]) = n
            /\ Len(wav_data[t].data) = (n - Cardinality(Failed(t))) * block
            /\ wav_data[t].header.data_size = (n - Cardinality(Failed(t))) * block
            /\ wav_data[t].data = Concat(EmittedBlocks(emitted[t], FrameSize * converter.channels))

C3_Witness ==
  \E t \in WorkerThreads :
    /\ pc[t] = "returned"
    /\ Len(emitted[t]) = 3
    /\ Failed(t) = {2}
    /\ Len(wav_data[t].data) = 2 * 640

C5_NoFramesEmptyContainer ==
  \A t \in WorkerThreads :
    (pc[t] \in {"loop", "close", "returned", "raised"} /\ Failed(t) = 1..Len(emitted[t]))
      => /\ pc[t] # "raised"
         /\ pc[t] = "returned" =>
              /\ wav_file[t].closed
              /\ wav_data[t].header.written
              /\ wav_data[t].header.data_size = 0
              /\ wav_data[t].header.riff_size = 36
              /\ wav_data[t].data = <<>>

C5_Witness ==
  \E t \in WorkerThreads :
    /\ pc[t] = "returned"
    /\ Len(emitted[t]) = 2
    /\ Failed(t) = {1, 2}
    /\ wav_data[t].header.written


\* The threads inside convert_to_wav
Converting == {t \in WorkerThreads : pc[t] \in {"loop", "close"}}

\* C6: at most one conversion is in progress in any state, the decode calls
\* of a conversion in progress are not interleaved with another
\* submission's (the last decode call is its own), and handling a request
\* touches neither the converter's decoder nor a conversion.
C6_OneConversionAtATime ==
  /\ [](/\ Cardinality(Converting) <= 1
        /\ \A t \in Converting : handed[t] # <<>> => last_decode = task[t].id)
  /\ [][nreq' # nreq => UNCHANGED <<decoder, last_decode, pc, task, conv_vars>>]_vars

C6_Witness ==
  \E t \in WorkerThreads :
    /\ pc[t] = "loop"
    /\ task[t].id = 1
    /\ handed[t] # <<>>
    /\ processing_queue # <<>>
    /\ nreq = 2

\* C7: submissions are processed in arrival order: the worker finishes them
\* in the order of their arrival numbers, the one it is processing is the
\* next after those it finished, and those waiting follow in order.
C7_ArrivalOrder ==
  /\ \A k \in 1..Len(done) : done[k].id = k
  /\ \A t \in WorkerThreads : task[t].id # 0 => task[t].id = Len(done) + 1
  /\ \A i \in 1..Len(processing_queue) :
       processing_queue[i].id = accepted - Len(processing_queue) + i

C7_Witness ==
  \E t \in WorkerThreads :
    /\ Len(done) = 1
    /\ done[1].id = 1
    /\ task[t].id = 2
    /\ pc[t] = "loop"

\* C8: an error while processing a submission never ends the worker's loop
\* and never blocks the next one: no worker thread is dead, every finished
\* submission has its outcome logged, and a worker waiting at a non-empty
\* queue can take the next item.
C8_ErrorsDoNotStopWorker ==
  /\ \A t \in WorkerThreads : pc[t] \in {"get", "loop", "close", "returned", "raised"}
  /\ Len(done) + Cardinality({t \in WorkerThreads : task[t].id # 0})
       + Len(processing_queue) = accepted
  /\ \A t \in WorkerThreads :
       (pc[t] = "get" /\ processing_queue # <<>>) => ENABLED WorkerGet(t)

C8_Witness ==
  /\ Len(done) = 2
  /\ done[1].outcome = "error"
  /\ done[2].outcome = "saved"

\* C9: under a fairly scheduled worker every enqueued submission is in the
\* end processed to completion, and none is processed twice.
C9_EventuallyProcessedOnce ==
  /\ \A i \in 1..MaxRequests :
       (accepted >= i) ~> (\E k \in 1..Len(done) : done[k].id = i)
  /\ [](\A j, k \in 1..Len(done) : done[j].id = done[k].id => j = k)

C9_Witness ==
  /\ accepted = 2
  /\ Len(done) = 2
  /\ {done[k].id : k \in 1..Len(done)} = {1, 2}

\* C10: a request with another content type, an empty body or a body under 2
\* bytes is answered with an error and leaves the queue as it was; a request
\* with content type audio/opus and a body of 2 bytes or more is enqueued
\* once, at the end of the queue, and answered 202.
C10_RejectedNeverQueued ==
  [][nreq' # nreq =>
       LET r == response'
           valid == r.content_type = "audio/opus" /\ Len(r.body) >= 2
       IN /\ valid =>
               /\ r.status = 202
               /\ accepted' = accepted + 1
               /\ Len(processing_queue') = Len(processing_queue) + 1
               /\ SubSeq(processing_queue', 1, Len(processing_queue)) = processing_queue
               /\ processing_queue'[Len(processing_queue')].opus_data = r.body
          /\ ~valid =>
               /\ r.status \in {400, 415}
               /\ processing_queue' = processing_queue
               /\ accepted' = accepted]_vars

C10_Witness ==
  /\ response.status = 400
  /\ Len(response.body) = 1
  /\ Len(processing_queue) = 1
  /\ accepted = 1


\* The requests receive_audio accepts
ValidRequests ==
  {r \in [content_type : ContentTypes, body : Submissions, audio_type : AudioTypes] :
     r.content_type = "audio/opus" /\ Len(r.body) >= 2}

\* C11: intake never waits on conversion: the enqueue-and-answer-202 step of
\* a valid request is enabled whatever the queue holds and wherever the
\* worker is, and when the 202 is produced the submission is still on the
\* queue, neither started nor finished.
C11_IntakeNeverWaits ==
  /\ [](nreq < MaxRequests =>
          \A r \in ValidRequests :
            ENABLED ReceiveAudioReq(r.content_type, r.body, r.audio_type))
  /\ [][(nreq' # nreq /\ response'.status = 202) =>
          /\ \E i \in 1..Len(processing_queue') : processing_queue'[i].id = accepted'
          /\ \A t \in WorkerThreads : task'[t].id # accepted'
          /\ \A k \in 1..Len(done') : done'[k].id # accepted'
          /\ UNCHANGED <<pc, task, done>>]_vars

C11_Witness ==
  \E t \in WorkerThreads :
    /\ pc[t] = "loop"
    /\ task[t].id = 1
    /\ response.status = 202
    /\ accepted = 2
    /\ Len(processing_queue) = 1
    /\ processing_queue[1].id = 2


\* C12: the decode of a submission owes nothing to the frames of an earlier
\* one: when a conversion is at its first decode call, the decoder is in the
\* state of a newly constructed decoder, whatever was submitted before.
C12_DecoderFreshPerStream ==
  \A t \in WorkerThreads :
    (pc[t] = "loop" /\ handed[t] = <<>>) => decoder = NoFrame


\* C13: round trip: at every point of a conversion the data section of the
\* container is byte for byte the concatenation, in frame order, of the PCM
\* blocks the decoder returned for the frames it decoded, and so is the data
\* section of the container returned.
C13_DataIsEmittedPcm ==
  \A t \in WorkerThreads :
    pc[t] \in {"loop", "close", "returned"} =>
      LET pcm == Concat(EmittedBlocks(emitted[t], FrameSize * converter.channels))
      IN /\ wav_file[t].data = pcm
         /\ pc[t] = "returned" => wav_data[t].data = pcm

C13_Witness ==
  \E t \in WorkerThreads :
    /\ pc[t] = "returned"
    /\ Len(emitted[t]) = 3
    /\ emitted[t][1].ok /\ emitted[t][1].sample = -2
    /\ ~emitted[t][2].ok
    /\ emitted[t][3].ok /\ emitted[t][3].sample = 258
    /\ SubSeq(wav_data[t].data, 639, 642) = <<254, 255, 2, 1>>

\* C14: a failure of the writer or its buffer is not swallowed like a decode
\* failure: once a decoded frame's write has failed, the conversion has raised,
\* and neither scans on nor returns a container.
C14_WriteFailurePropagates ==
  \A t \in WorkerThreads :
    (\E i \in 1..Len(emitted[t]) : emitted[t][i].ok /\ ~emitted[t][i].written)
      => pc[t] = "raised"

\* C15: for every sample rate the converter is constructed with, the sample
\* count requested from the decoder for a frame is 20 ms at that rate,
\* sample_rate * 20 / 1000.
C15_FrameSizeFromRate ==
  \A t \in WorkerThreads :
    \A i \in 1..Len(emitted[t]) : emitted[t][i].frame_size = NominalSamples

\* C16: the frame index advances with every frame handed to the decoder,
\* failed or not, so the index logged with a failure is the position (from 0)
\* of the failing frame in the stream.
C16_IndexIsPosition ==
  \A t \in WorkerThreads :
    /\ frame_count[t] = Len(handed[t])
    /\ \A i \in Failed(t) : emitted[t][i].logged = i - 1

\* C17: during a conversion the data section only grows, by one whole block
\* per frame or not at all; in the container returned, the declared data
\* length is the number of PCM bytes appended and the declared RIFF size is
\* that length plus the 36 bytes of header that follow the size field.
C17_SizesMatchPayload ==
  /\ [](\A t \in WorkerThreads :
          pc[t] = "returned" =>
            LET n == FrameSize * converter.channels * SampWidth * frame_count[t]
            IN /\ Len(wav_data[t].data) = n
               /\ wav_data[t].header.written
               /\ wav_data[t].header.data_size = n
               /\ wav_data[t].header.riff_size = n + 36)
  /\ [][\A t \in WorkerThreads :
          \/ wav_file'[t].data = wav_file[t].data
          \/ /\ Len(emitted'[t]) = Len(emitted[t]) + 1
             /\ wav_file'[t].data =
                  wav_file[t].data
                    \o PcmBlock(emitted'[t][Len(emitted'[t])].sample,
                                FrameSize * converter.channels)]_vars

\* A returned container after a written frame, a failed one and a truncated tail
C17_Witness ==
  \E t \in WorkerThreads :
    /\ pc[t] = "returned"
    /\ task[t].opus_data = <<0, 0, 0, 0, 1>>
    /\ emitted[t][1].written
    /\ ~emitted[t][2].ok
    /\ wav_data[t].header.data_size = 640
    /\ wav_data[t].header.riff_size = 676

\* C18: the scan ends on every input. The cursor stays within 0..len(input)
\* and no index beyond the input is read; the cursor never moves back; every
\* pass that keeps scanning moves it on by the 2 header bytes plus the whole
\* frame it cut out, so by at least 2; and the conversion returns.
C18_ScanTerminates ==
  /\ [](\A t \in WorkerThreads :
          /\ 0 <= offset[t] /\ offset[t] <= Len(task[t].opus_data)
          /\ pc[t] # "raised")
  /\ [][\A t \in WorkerThreads :
          /\ offset'[t] >= offset[t]
          /\ (pc[t] = "loop" /\ pc'[t] = "loop") =>
               /\ Len(handed'[t]) = Len(handed[t]) + 1
               /\ LET frame == handed'[t][Len(handed'[t])]
                  IN /\ Len(frame) = ReadFrameLength(task[t].opus_data, offset[t])
                     /\ offset'[t] = offset[t] + 2 + Len(frame)
               /\ offset'[t] >= offset[t] + 2]_vars
  /\ <>(\A t \in WorkerThreads : pc[t] = "returned")

\* A scan that ended at the end of its input past an empty frame and a full one
C18_Witness ==
  \E t \in WorkerThreads :
    /\ pc[t] = "returned"
    /\ task[t].opus_data = <<0, 0, 1, 0, 2>>
    /\ handed[t] = << <<>>, <<2>> >>
    /\ offset[t] = 5

\* C19: every submission the worker has processed and saved has its own file
\* in the recordings directory: no later submission's file has replaced it,
\* whatever their role tags and timestamps.
C19_OwnFilePerSubmission ==
  \A k \in 1..Len(done) :
    done[k].outcome = "saved" => \E f \in recordings : f.id = done[k].id

====
